---- MODULE Spec2Model ----
(***************************************************************************)
(* Model of the crash-game backend in src/index.js.                        *)
(*                                                                         *)
(* The file holds consecutive drafts of the same server.  Two of them      *)
(* carry the round engine together with a bet ledger:                      *)
(*   draft 1 (lines 1-262)   guest sessions kept in memory, bets and       *)
(*                           cashouts arrive as WebSocket messages;        *)
(*   draft 2 (lines 264-571) bets and cashouts arrive as HTTP requests and *)
(*                           balances and bets live in the Supabase store. *)
(* The file ends with a third program (lines 572-640), a bare round loop   *)
(* without states, bets or persistence, which exports startRound and       *)
(* setClients; it is modelled as run by a module that imports it, calls    *)
(* startRound once and may call setClients at any time.                    *)
(* The variable draft says which of the programs is running; it is fixed  *)
(* by Init and never changes.                                              *)
(*                                                                         *)
(* Units.  Multipliers and crash points are integers in hundredths         *)
(* (100 is 1.00).  Bet amounts are whole coins.  Balances and wins are in  *)
(* hundredths of a coin, so that +(amount * multiplier).toFixed(2) is the  *)
(* integer amount * multiplier.                                            *)
(*                                                                         *)
(* Scheduling.  Node runs every callback to completion, so every action    *)
(* below is one callback, or the part of an async function between two     *)
(* awaits.  A persistence call takes effect in the store at the step at    *)
(* which its await resumes.  The store may answer any call whose answer   *)
(* the code looks at with an error; the other calls (the balance selects   *)
(* and updates, the update of ended_at, the settlement of the lost bets)   *)
(* are modelled as succeeding.  Timers are independent of one another: a   *)
(* callback of an armed timer may run at any step.                         *)
(***************************************************************************)
EXTENDS Integers, Sequences, FiniteSets, TLC

(* ------------------------------ bounds --------------------------------- *)
\* Number of distinct guest ids crypto.randomBytes(3) can produce in the model.
NUsers == 2
\* Number of WebSocket connections that can be open at once.
MaxSockets == 1
\* Number of distinct server seeds generateServerSeed can draw.
NSeeds == 2
\* Number of rounds startNewRound opens before the model stops the loop.
MaxRounds == 2
\* Number of users with a balance row in the store (draft 2).
NHttpUsers == 1
\* Number of /bet requests, and of /cashout requests, that get past the
\* handler's first checks and reach the store before the model stops
\* accepting more of them (draft 2).
MaxBets == 2
MaxCashouts == 2
\* Number of countdown intervals armed at once: a round opens when the
\* countdowns of fewer than this many earlier rounds are still running.
MaxWaitTimers == 1

(* ------------------------- program constants --------------------------- *)
StartBalance == 100000
WaitSecondsV1 == 5
WaitSecondsV2 == 3
\* Math.pow(2, 52), in the unit 2^45 in which HmacPrefix counts.
PrefixScale == 128
\* 100 * (1 - HOUSE_EDGE)
HouseEdgeFactor == 96

ClientSeed == "demo-client"
Null == 0
NoBet == <<>>

UserIds == 1..NUsers
\* draft 2: the user ids HTTP clients send; NoUser is a request without one
HttpUsers == 1..NHttpUsers
NoUser == 0
\* draft 2: the amounts HTTP clients send
AmountsHttp == {0, 600}
Sockets == 1..MaxSockets
\* The server seeds generateServerSeed draws, out of the 2^256 there are:
\* samples whose crash points are reached within two ticks (draft 1: 1.02
\* and 1.00; draft 2, which applies no house edge: 1.02 and 1.00).
Seeds == 1..NSeeds
SeedsV2 == {3 * i - 1 : i \in 1..NSeeds}
\* PLACE_BET amounts a WebSocket client sends.  parsed.amount is whatever
\* JSON.parse gives and the handler checks no type: the JSON number n is
\* <<n>> and JSON null is <<>> (the value of an activeBet that is null).
Amounts == {<<-200000>>, <<0>>, <<200>>, NoBet}

VARIABLES
  draft,              \* 1 or 2: which program of the file runs
  gameState,          \* "WAITING" | "RUNNING" | "CRASHED"
  currentMultiplier,  \* hundredths
  crashPoint,         \* hundredths, Null before the first round
  currentRoundId,     \* id of the last round row inserted, Null before
  serverSeed,         \* Null ("") before the first round
  serverSeedHash,     \* draft 2 only
  guestSessions,      \* draft 1: userId -> [balance, activeBet, cashedOut]
  wsUser,             \* draft 1: open socket -> the userId its closure holds
  reply,              \* what the last step sent to one client (ws.send / res.json)
  sent,               \* the broadcasts of the current round
  pc,                 \* the round loop's pending timer or await
  waitSeconds,        \* local of startNewRound, shared with its waitTimer
                      \* callback: call n of startNewRound -> the value
  waitTimer,          \* the calls of startNewRound whose countdown interval is
                      \* armed
  roundNo,            \* number of calls of startNewRound so far
  dbRounds,           \* store: table rounds, row i has id i
  activeBets,         \* draft 2: userId -> [amount, cashedOut]
  dbBalances,         \* draft 2 store: table balances, user_id -> balance
  dbBets,             \* draft 2 store: table bets
  reqs,               \* draft 2: HTTP handlers suspended at an await
  nBets,              \* draft 2: number of /bet handlers that have reached the store
  nCashouts,          \* draft 2: the same for /cashout
  credits,            \* history: userId -> the wins that cashouts accepted in the
                      \* current round have added to that user's balance
  tickTimers,         \* number of armed multiplier intervals (startCrash's timer)
  betRound,           \* history: userId -> the round (roundNo) whose handler
                      \* recorded the user's current bet, 0 without a bet
  rowRound,           \* history: for row i of table bets, the round (roundNo)
                      \* in which the /bet request that inserted it was accepted
  roundActive,        \* draft 3
  clients             \* draft 3: the sockets handed over by setClients

engineVars == <<gameState, currentMultiplier, crashPoint, currentRoundId,
                serverSeed, serverSeedHash, sent, pc, waitSeconds, waitTimer,
                roundNo, dbRounds, tickTimers>>
wsVars == <<guestSessions, wsUser>>
httpVars == <<activeBets, dbBalances, dbBets, reqs, nBets, nCashouts>>
histVars == <<credits, betRound, rowRound>>
roundVars == <<roundActive, clients>>
vars == <<draft, engineVars, wsVars, httpVars, roundVars, reply, histVars>>

(* ------------------------------ helpers -------------------------------- *)
Max(a, b) == IF a >= b THEN a ELSE b

\* Stand-in for crypto's SHA-256: injective on Seeds, and no seed is its own hash.
sha256(data) == 1000 + 7 * data

\* Stand-in for parseInt(hmacSha256(serverSeed, clientSeed).slice(0, 13), 16),
\* counted in units of 2^45: a fixed function of the seed.
HmacPrefix(seed) == (8 * seed) % 13

\* draft 1: fair multiplier, 4% house edge, floored to 2 decimals, at least 1.00
calculateCrashPoint(seed) ==
  Max(100, (HouseEdgeFactor * PrefixScale) \div (PrefixScale - HmacPrefix(seed)))

\* draft 2: no house edge
calculateCrashPointV2(seed) ==
  Max(100, (100 * PrefixScale) \div (PrefixScale - HmacPrefix(seed)))

\* +(amount * currentMultiplier).toFixed(2), in hundredths of a coin
round2(amount, multiplier) == amount * multiplier

\* broadcast(data): every open client is sent data.  No two broadcasts of one
\* round are equal, so the model keeps the round's broadcasts as a set.
broadcast(log, data) == log \cup {data}

\* JavaScript truthiness of session.activeBet (null and 0 are falsy)
Falsy(bet) == IF bet = NoBet THEN TRUE ELSE bet[1] = 0

\* JavaScript ToNumber of the amount in <, -= and *: null counts as 0
ToNumber(value) == IF value = NoBet THEN 0 ELSE value[1]

NoReply == [to |-> 0, msg |-> [type |-> "NONE"]]

NoCredits == [u \in UserIds \cup HttpUsers |-> <<>>]

NoBetRound == [u \in UserIds \cup HttpUsers |-> 0]

ErrorMsg(text) == [type |-> "ERROR", message |-> text]

(* ------------------------- draft 1: connections ------------------------ *)
\* wss.on("connection"): a random guest id (an id already in use is drawn
\* again with small probability, and then overwrites that session)
connection(ws, userId) ==
  /\ draft = 1
  /\ pc # "listen"
  /\ ws \notin DOMAIN wsUser
  /\ guestSessions' =
       [id \in DOMAIN guestSessions \cup {userId} |->
          IF id = userId
          THEN [balance |-> StartBalance, activeBet |-> NoBet, cashedOut |-> FALSE]
          ELSE guestSessions[id]]
  /\ wsUser' = [w \in DOMAIN wsUser \cup {ws} |-> IF w = ws THEN userId ELSE wsUser[w]]
  /\ betRound' = [betRound EXCEPT ![userId] = 0]
  /\ reply' = [to |-> ws,
               msg |-> [type |-> "WELCOME", userId |-> userId,
                        balance |-> StartBalance, gameState |-> gameState,
                        currentMultiplier |-> currentMultiplier]]
  /\ UNCHANGED <<roundVars, rowRound, credits, draft, engineVars, httpVars>>

\* ws.on("close"): the handler body is empty; the socket is gone
close(ws) ==
  /\ draft = 1
  /\ ws \in DOMAIN wsUser
  /\ wsUser' = [w \in DOMAIN wsUser \ {ws} |-> wsUser[w]]
  /\ reply' = NoReply
  /\ UNCHANGED <<roundVars, betRound, rowRound, credits, draft, engineVars, httpVars, guestSessions>>

(* ------------------------- draft 1: PLACE_BET -------------------------- *)
\* a handler that takes bets in every phase
BettingClosed_never == FALSE

\* if (gameState !== "WAITING")
BettingClosed == gameState # "WAITING"

\* if (session.activeBet !== null)
AlreadyBet(session) == session.activeBet # NoBet

\* if (session.balance < amount)
Insufficient(session, amount) == session.balance < ToNumber(amount) * 100

PLACE_BET(ws, amount) ==
  /\ draft = 1
  /\ ws \in DOMAIN wsUser
  /\ LET userId == wsUser[ws]
         session == guestSessions[userId]
     IN  \/ /\ BettingClosed
            /\ reply' = [to |-> ws, msg |-> ErrorMsg("Betting closed")]
            /\ UNCHANGED <<guestSessions, betRound>>
         \/ /\ ~BettingClosed
            /\ AlreadyBet(session)
            /\ reply' = [to |-> ws, msg |-> ErrorMsg("Already bet")]
            /\ UNCHANGED <<guestSessions, betRound>>
         \/ /\ ~BettingClosed
            /\ ~AlreadyBet(session)
            /\ Insufficient(session, amount)
            /\ reply' = [to |-> ws, msg |-> ErrorMsg("Insufficient balance")]
            /\ UNCHANGED <<guestSessions, betRound>>
         \/ /\ ~BettingClosed
            /\ ~AlreadyBet(session)
            /\ ~Insufficient(session, amount)
            /\ guestSessions' =
                 [guestSessions EXCEPT
                    ![userId] = [balance |-> session.balance - ToNumber(amount) * 100,
                                 activeBet |-> amount,
                                 cashedOut |-> FALSE]]
            /\ betRound' = [betRound EXCEPT ![userId] = roundNo]
            /\ reply' = [to |-> ws,
                         msg |-> [type |-> "BET_CONFIRMED", amount |-> amount,
                                  balance |-> session.balance - ToNumber(amount) * 100]]
  /\ UNCHANGED <<roundVars, rowRound, credits, draft, engineVars, httpVars, wsUser>>

(* -------------------------- draft 1: CASHOUT --------------------------- *)
\* if (gameState !== "RUNNING" || !session.activeBet || session.cashedOut)
CashoutRefused(session) ==
  gameState # "RUNNING" \/ Falsy(session.activeBet) \/ session.cashedOut

CASHOUT(ws) ==
  /\ draft = 1
  /\ ws \in DOMAIN wsUser
  /\ LET userId == wsUser[ws]
         session == guestSessions[userId]
     IN  \/ /\ CashoutRefused(session)
            /\ reply' = [to |-> ws, msg |-> ErrorMsg("Cashout failed")]
            /\ UNCHANGED <<guestSessions, credits>>
         \/ /\ ~CashoutRefused(session)
            /\ LET win == round2(ToNumber(session.activeBet), currentMultiplier)
               IN  /\ guestSessions' =
                        [guestSessions EXCEPT
                           ![userId] = [balance |-> session.balance + win,
                                        activeBet |-> session.activeBet,
                                        cashedOut |-> TRUE]]
                   /\ reply' = [to |-> ws,
                                msg |-> [type |-> "CASHOUT_CONFIRMED",
                                         multiplier |-> currentMultiplier,
                                         win |-> win,
                                         balance |-> session.balance + win]]
                   /\ credits' = [credits EXCEPT ![userId] = Append(@, win)]
  /\ UNCHANGED <<roundVars, betRound, rowRound, draft, engineVars, httpVars, wsUser>>

(* ------------------------ draft 1: /admin/users ----------------------- *)
\* active_users: Object.keys(guestSessions).length
active_users == Cardinality(DOMAIN guestSessions)

(* ------------------------- draft 1: round loop ------------------------- *)
\* a round that starts with the multiplier the last one ended with
ResetMultiplier_stale == currentMultiplier

\* currentMultiplier = 1 at the start of a round
ResetMultiplier == 100

\* startNewRound up to its await (also the server.listen callback)
startNewRound ==
  /\ draft = 1
  /\ pc \in {"listen", "restartTimer"}
  /\ roundNo < MaxRounds
  /\ Cardinality(waitTimer) < MaxWaitTimers
  /\ \E seed \in Seeds :
       /\ serverSeed' = seed
       /\ crashPoint' = calculateCrashPoint(seed)
  /\ guestSessions' =
       [id \in DOMAIN guestSessions |->
          [guestSessions[id] EXCEPT !.activeBet = NoBet, !.cashedOut = FALSE]]
  /\ currentMultiplier' = ResetMultiplier
  /\ gameState' = "WAITING"
  /\ sent' = broadcast(broadcast({}, [type |-> "STATE", state |-> "WAITING"]),
                       [type |-> "WAITING_TICK", seconds |-> WaitSecondsV1])
  /\ waitSeconds' = Append(waitSeconds, WaitSecondsV1)
  /\ waitTimer' = waitTimer \cup {roundNo + 1}
  /\ pc' = "insertRound"
  /\ roundNo' = roundNo + 1
  /\ credits' = NoCredits
  /\ betRound' = NoBetRound
  /\ UNCHANGED <<roundVars, rowRound, tickTimers, draft, currentRoundId, serverSeedHash, dbRounds, wsUser,
                 httpVars>>
  /\ reply' = NoReply

\* the row startNewRound inserts into table rounds
RoundRow ==
  [server_seed |-> serverSeed, server_seed_hash |-> sha256(serverSeed),
   client_seed |-> ClientSeed, crash_point |-> crashPoint, ended_at |-> FALSE]

\* a ROUND_START that carries the seed next to its hash
RoundStart_withSeed ==
  [type |-> "ROUND_START", serverSeedHash |-> sha256(serverSeed),
   clientSeed |-> ClientSeed, serverSeed |-> serverSeed]

\* the ROUND_START broadcast of draft 1
RoundStart ==
  [type |-> "ROUND_START", serverSeedHash |-> sha256(serverSeed),
   clientSeed |-> ClientSeed]

\* startNewRound from the await of the insert on: the store answers with the
\* new row (data) or with an error
startNewRoundResume ==
  /\ draft = 1
  /\ pc = "insertRound"
  /\ \E error \in BOOLEAN :
       IF ~error
       THEN /\ dbRounds' = Append(dbRounds, RoundRow)
            /\ currentRoundId' = Len(dbRounds) + 1
       ELSE UNCHANGED <<dbRounds, currentRoundId>>
  /\ sent' = broadcast(sent, RoundStart)
  /\ pc' = "crashTimer"
  /\ UNCHANGED <<roundVars, betRound, rowRound, tickTimers, credits, draft, gameState, currentMultiplier, crashPoint, serverSeed,
                 serverSeedHash, waitSeconds, waitTimer, roundNo, wsVars,
                 httpVars>>
  /\ reply' = NoReply

\* the setInterval callback of call n of startNewRound (same text in both
\* drafts); no other timer waits for it or is held back by it
waitTimerTick(n) ==
  /\ n \in waitTimer
  /\ waitSeconds' = [waitSeconds EXCEPT ![n] = @ - 1]
  /\ IF waitSeconds[n] - 1 > 0
     THEN /\ sent' = broadcast(sent, [type |-> "WAITING_TICK",
                                      seconds |-> waitSeconds[n] - 1])
          /\ UNCHANGED waitTimer
     ELSE /\ waitTimer' = waitTimer \ {n}
          /\ UNCHANGED sent
  /\ UNCHANGED <<roundVars, betRound, rowRound, tickTimers, credits, draft, gameState, currentMultiplier, crashPoint, currentRoundId,
                 serverSeed, serverSeedHash, pc, roundNo, dbRounds, wsVars,
                 httpVars>>
  /\ reply' = NoReply

\* setInterval and clearInterval on the count of armed multiplier intervals
setInterval(n) == n + 1

\* a crash that leaves the interval armed
clearInterval_forgotten(n) == n

clearInterval(n) == n - 1

\* startCrash, the setTimeout(startCrash, 5000) callback (same text in both
\* drafts)
startCrash ==
  /\ pc = "crashTimer"
  /\ gameState' = "RUNNING"
  /\ sent' = broadcast(sent, [type |-> "STATE", state |-> "RUNNING"])
  /\ pc' = "tickTimer"
  /\ tickTimers' = setInterval(tickTimers)
  /\ UNCHANGED <<roundVars, betRound, rowRound, credits, draft, currentMultiplier, crashPoint, currentRoundId, serverSeed,
                 serverSeedHash, waitSeconds, waitTimer, roundNo, dbRounds,
                 wsVars, httpVars>>
  /\ reply' = NoReply

\* a handleCrash that arms the next round only after a stored round
handleCrash_noRestart(log) ==
  /\ gameState' = "CRASHED"
  /\ sent' = broadcast(broadcast(log, [type |-> "STATE", state |-> "CRASHED"]),
                       [type |-> "CRASH", crashPoint |-> crashPoint])
  /\ pc' = IF currentRoundId # Null THEN "updateRound" ELSE "halted"

\* handleCrash of draft 1 up to its await, applied to the log after the tick
handleCrash(log) ==
  /\ gameState' = "CRASHED"
  /\ sent' = broadcast(broadcast(log, [type |-> "STATE", state |-> "CRASHED"]),
                       [type |-> "CRASH", crashPoint |-> crashPoint])
  /\ pc' = IF currentRoundId # Null THEN "updateRound" ELSE "restartTimer"

\* handleCrash of draft 2 up to its first await
handleCrashV2(log) ==
  /\ gameState' = "CRASHED"
  /\ sent' = broadcast(broadcast(log, [type |-> "STATE", state |-> "CRASHED"]),
                       [type |-> "CRASH", crashPoint |-> crashPoint,
                        serverSeed |-> serverSeed])
  /\ pc' = "updateRound"

\* a tick whose crash takes the stake of every un-cashed bet a second time
timerTick_debitsAgain ==
  /\ draft \in {1, 2}
  /\ tickTimers > 0
  /\ currentMultiplier' = currentMultiplier + 1
  /\ LET log == broadcast(sent, [type |-> "MULTIPLIER",
                                 value |-> currentMultiplier + 1])
     IN  IF currentMultiplier + 1 >= crashPoint
         THEN /\ tickTimers' = clearInterval(tickTimers)
              /\ guestSessions' =
                   [id \in DOMAIN guestSessions |->
                      IF Falsy(guestSessions[id].activeBet)
                         \/ guestSessions[id].cashedOut
                      THEN guestSessions[id]
                      ELSE [guestSessions[id] EXCEPT
                              !.balance = @ - guestSessions[id].activeBet[1] * 100]]
              /\ IF draft = 1 THEN handleCrash(log) ELSE handleCrashV2(log)
         ELSE /\ sent' = log
              /\ UNCHANGED <<gameState, pc, tickTimers, guestSessions>>
  /\ UNCHANGED <<roundVars, betRound, rowRound, credits, draft, crashPoint, currentRoundId, serverSeed, serverSeedHash,
                 waitSeconds, waitTimer, roundNo, dbRounds, wsUser, httpVars>>
  /\ reply' = NoReply


\* the setInterval callback of startCrash: one 100 ms tick (same text in both
\* drafts)
timerTick ==
  /\ draft \in {1, 2}
  /\ tickTimers > 0
  /\ currentMultiplier' = currentMultiplier + 1
  /\ LET log == broadcast(sent, [type |-> "MULTIPLIER",
                                 value |-> currentMultiplier + 1])
     IN  IF currentMultiplier + 1 >= crashPoint
         THEN /\ tickTimers' = clearInterval(tickTimers)
              /\ IF draft = 1 THEN handleCrash(log) ELSE handleCrashV2(log)
         ELSE /\ sent' = log
              /\ UNCHANGED <<gameState, pc, tickTimers>>
  /\ UNCHANGED <<roundVars, betRound, rowRound, credits, draft, crashPoint, currentRoundId, serverSeed, serverSeedHash,
                 waitSeconds, waitTimer, roundNo, dbRounds, wsVars, httpVars>>
  /\ reply' = NoReply

\* handleCrash of draft 1 from the await of the ended_at update on; the
\* answer of the store (done or error) is not looked at
handleCrashResume ==
  /\ draft = 1
  /\ pc = "updateRound"
  /\ IF currentRoundId \in DOMAIN dbRounds
     THEN dbRounds' = [dbRounds EXCEPT ![currentRoundId].ended_at = TRUE]
     ELSE UNCHANGED dbRounds
  /\ pc' = "restartTimer"
  /\ UNCHANGED <<roundVars, betRound, rowRound, tickTimers, credits, draft, gameState, currentMultiplier, crashPoint, currentRoundId,
                 serverSeed, serverSeedHash, sent, waitSeconds, waitTimer,
                 roundNo, wsVars, httpVars>>
  /\ reply' = NoReply

(* ------------------------- draft 2: round loop ------------------------- *)
\* startNewRound of draft 2 up to its await
startNewRoundV2 ==
  /\ draft = 2
  /\ pc \in {"listen", "restartTimer"}
  /\ roundNo < MaxRounds
  /\ Cardinality(waitTimer) < MaxWaitTimers
  /\ \E seed \in SeedsV2 :
       /\ serverSeed' = seed
       /\ serverSeedHash' = sha256(seed)
       /\ crashPoint' = calculateCrashPointV2(seed)
  /\ activeBets' = <<>>
  /\ currentMultiplier' = ResetMultiplier
  /\ gameState' = "WAITING"
  /\ sent' = broadcast(broadcast({}, [type |-> "STATE", state |-> "WAITING"]),
                       [type |-> "WAITING_TICK", seconds |-> WaitSecondsV2])
  /\ waitSeconds' = Append(waitSeconds, WaitSecondsV2)
  /\ waitTimer' = waitTimer \cup {roundNo + 1}
  /\ pc' = "insertRound"
  /\ roundNo' = roundNo + 1
  /\ credits' = NoCredits
  /\ betRound' = NoBetRound
  /\ reply' = NoReply
  /\ UNCHANGED <<roundVars, rowRound, tickTimers, draft, currentRoundId, dbRounds, wsVars, dbBalances, dbBets, reqs, nBets, nCashouts>>

\* startNewRound of draft 2 from the await of the insert on: an error answer
\* is logged and the function returns, arming no timer
startNewRoundResumeV2 ==
  /\ draft = 2
  /\ pc = "insertRound"
  /\ \E error \in BOOLEAN :
       IF error
       THEN /\ pc' = "halted"
            /\ UNCHANGED <<dbRounds, currentRoundId, sent>>
       ELSE /\ dbRounds' = Append(dbRounds, RoundRow)
            /\ currentRoundId' = Len(dbRounds) + 1
            /\ sent' = broadcast(sent, [type |-> "ROUND_START",
                                        serverSeedHash |-> serverSeedHash,
                                        clientSeed |-> ClientSeed])
            /\ pc' = "crashTimer"
  /\ reply' = NoReply
  /\ UNCHANGED <<roundVars, betRound, rowRound, tickTimers, credits, draft, gameState, currentMultiplier, crashPoint, serverSeed,
                 serverSeedHash, waitSeconds, waitTimer, roundNo, wsVars, httpVars>>

\* handleCrash of draft 2 between its two awaits: the ended_at update has
\* answered (its answer is not looked at), the bets update is sent
handleCrashResumeV2 ==
  /\ draft = 2
  /\ pc = "updateRound"
  /\ IF currentRoundId \in DOMAIN dbRounds
     THEN dbRounds' = [dbRounds EXCEPT ![currentRoundId].ended_at = TRUE]
     ELSE UNCHANGED dbRounds
  /\ pc' = "updateBets"
  /\ reply' = NoReply
  /\ UNCHANGED <<roundVars, betRound, rowRound, tickTimers, credits, draft, gameState, currentMultiplier, crashPoint, currentRoundId,
                 serverSeed, serverSeedHash, sent, waitSeconds, waitTimer,
                 roundNo, wsVars, httpVars>>

\* handleCrash of draft 2 from its second await on: the placed bets of
\* currentRoundId are marked lost, then setTimeout(startNewRound, 3000)
handleCrashSettleV2 ==
  /\ draft = 2
  /\ pc = "updateBets"
  /\ dbBets' = [i \in DOMAIN dbBets |->
                  IF dbBets[i].round_id = currentRoundId
                     /\ dbBets[i].status = "placed"
                  THEN [dbBets[i] EXCEPT !.status = "lost"]
                  ELSE dbBets[i]]
  /\ pc' = "restartTimer"
  /\ reply' = NoReply
  /\ UNCHANGED <<roundVars, betRound, rowRound, tickTimers, credits, draft, gameState, currentMultiplier, crashPoint, currentRoundId,
                 serverSeed, serverSeedHash, sent, waitSeconds, waitTimer,
                 roundNo, dbRounds, wsVars, activeBets, dbBalances, reqs, nBets, nCashouts>>

(* ------------------------ draft 2: HTTP handlers ----------------------- *)
\* The suspended handlers form a bag: request record -> how many of it.
BagAdd(bag, r) ==
  [x \in DOMAIN bag \cup {r} |->
     IF x \in DOMAIN bag THEN (IF x = r THEN bag[x] + 1 ELSE bag[x]) ELSE 1]

BagRemove(bag, r) ==
  IF bag[r] > 1
  THEN [bag EXCEPT ![r] = @ - 1]
  ELSE [x \in DOMAIN bag \ {r} |-> bag[x]]

Response(userId, status, body) ==
  [to |-> userId, msg |-> [type |-> "RESPONSE", status |-> status, body |-> body]]

ErrorBody(text) == [error |-> text]

\* wss.on("connection") of draft 2
connectionV2 ==
  /\ draft = 2
  /\ pc # "listen"
  /\ reply' = [to |-> 0, msg |-> [type |-> "STATE", state |-> gameState]]
  /\ UNCHANGED <<roundVars, betRound, rowRound, credits, draft, engineVars, wsVars, httpVars>>

\* app.post("/bet") up to its first await
bet(userId, amount) ==
  /\ draft = 2
  /\ pc # "listen"
  /\ \/ /\ gameState # "WAITING"
        /\ reply' = Response(userId, 400, ErrorBody("Betting closed"))
        /\ UNCHANGED <<reqs, nBets>>
     \/ /\ gameState = "WAITING"
        /\ currentRoundId = Null
        /\ reply' = Response(userId, 400, ErrorBody("Round not ready"))
        /\ UNCHANGED <<reqs, nBets>>
     \/ /\ gameState = "WAITING"
        /\ currentRoundId # Null
        /\ userId = NoUser \/ amount <= 0
        /\ reply' = Response(userId, 400, ErrorBody("Invalid bet"))
        /\ UNCHANGED <<reqs, nBets>>
     \/ /\ gameState = "WAITING"
        /\ currentRoundId # Null
        /\ ~(userId = NoUser \/ amount <= 0)
        /\ userId \in DOMAIN activeBets
        /\ reply' = Response(userId, 400, ErrorBody("Already bet"))
        /\ UNCHANGED <<reqs, nBets>>
     \/ /\ gameState = "WAITING"
        /\ currentRoundId # Null
        /\ ~(userId = NoUser \/ amount <= 0)
        /\ userId \notin DOMAIN activeBets
        /\ reqs' = BagAdd(reqs, [kind |-> "bet", pc |-> "select",
                                 userId |-> userId, amount |-> amount,
                                 bal |-> 0, roundId |-> 0, win |-> 0,
                                 round |-> roundNo])
        /\ nBets < MaxBets
        /\ nBets' = nBets + 1
        /\ reply' = NoReply
  /\ UNCHANGED <<roundVars, betRound, rowRound, credits, draft, engineVars, wsVars, activeBets, dbBalances, dbBets, nCashouts>>

\* /bet from the await of the balance select to the sending of the bet insert
betSelected(r) ==
  /\ draft = 2
  /\ r \in DOMAIN reqs
  /\ r.kind = "bet" /\ r.pc = "select"
  /\ IF r.userId \notin DOMAIN dbBalances
        \/ dbBalances[r.userId] < r.amount * 100
     THEN /\ reply' = Response(r.userId, 400, ErrorBody("Insufficient balance"))
            /\ reqs' = BagRemove(reqs, r)
     ELSE /\ reply' = NoReply
          /\ reqs' = BagAdd(BagRemove(reqs, r),
                            [r EXCEPT !.pc = "insert",
                                      !.bal = dbBalances[r.userId],
                                      !.roundId = currentRoundId])
  /\ UNCHANGED <<roundVars, betRound, rowRound, credits, draft, engineVars, wsVars, activeBets, dbBalances, dbBets, nBets, nCashouts>>

\* /bet from the await of the bet insert to the sending of the balance update
betInserted(r) ==
  /\ draft = 2
  /\ r \in DOMAIN reqs
  /\ r.kind = "bet" /\ r.pc = "insert"
  /\ \E betError \in BOOLEAN :
       IF betError
       THEN /\ reply' = Response(r.userId, 500, ErrorBody("Bet insert failed"))
            /\ reqs' = BagRemove(reqs, r)
            /\ UNCHANGED <<dbBets, rowRound>>
       ELSE /\ dbBets' = Append(dbBets, [round_id |-> r.roundId,
                                         user_id |-> r.userId,
                                         bet_amount |-> r.amount,
                                         status |-> "placed",
                                         cashout_multiplier |-> Null,
                                         win_amount |-> Null])
            /\ rowRound' = Append(rowRound, r.round)
            /\ reply' = NoReply
            /\ reqs' = BagAdd(BagRemove(reqs, r), [r EXCEPT !.pc = "update"])
  /\ UNCHANGED <<roundVars, betRound, credits, draft, engineVars, wsVars, activeBets, dbBalances, nBets, nCashouts>>

\* /bet from the await of the balance update to the response; the answer of
\* the store is not looked at
betRecorded(r) ==
  /\ draft = 2
  /\ r \in DOMAIN reqs
  /\ r.kind = "bet" /\ r.pc = "update"
  /\ IF r.userId \in DOMAIN dbBalances
     THEN dbBalances' = [dbBalances EXCEPT ![r.userId] = r.bal - r.amount * 100]
     ELSE UNCHANGED dbBalances
  /\ activeBets' =
       [u \in DOMAIN activeBets \cup {r.userId} |->
          IF u = r.userId THEN [amount |-> r.amount, cashedOut |-> FALSE]
          ELSE activeBets[u]]
  /\ betRound' = [betRound EXCEPT ![r.userId] = r.round]
  /\ reply' = Response(r.userId, 200, [success |-> TRUE])
  /\ reqs' = BagRemove(reqs, r)
  /\ UNCHANGED <<roundVars, rowRound, credits, draft, engineVars, wsVars, dbBets, nBets, nCashouts>>

\* app.post("/cashout") up to its first await
cashout(userId) ==
  /\ draft = 2
  /\ pc # "listen"
  /\ \/ /\ \/ gameState # "RUNNING"
           \/ userId \notin DOMAIN activeBets
           \/ (userId \in DOMAIN activeBets /\ activeBets[userId].cashedOut)
        /\ reply' = Response(userId, 400, ErrorBody("Invalid cashout"))
        /\ UNCHANGED <<activeBets, reqs, nCashouts>>
     \/ /\ gameState = "RUNNING"
        /\ userId \in DOMAIN activeBets
        /\ ~activeBets[userId].cashedOut
        /\ activeBets' = [activeBets EXCEPT ![userId].cashedOut = TRUE]
        /\ reqs' = BagAdd(reqs, [kind |-> "cashout", pc |-> "update",
                                 userId |-> userId,
                                 amount |-> currentMultiplier,
                                 bal |-> 0, roundId |-> currentRoundId,
                                 win |-> round2(activeBets[userId].amount,
                                                currentMultiplier),
                                 round |-> roundNo])
        /\ nCashouts < MaxCashouts
        /\ nCashouts' = nCashouts + 1
        /\ reply' = NoReply
  /\ UNCHANGED <<roundVars, betRound, rowRound, credits, draft, engineVars, wsVars, dbBalances, dbBets, nBets>>

\* /cashout from the await of the bets update to the sending of the balance
\* select; r.amount holds the cashout_multiplier the update was sent with
cashoutUpdated(r) ==
  /\ draft = 2
  /\ r \in DOMAIN reqs
  /\ r.kind = "cashout" /\ r.pc = "update"
  /\ \E cashoutError \in BOOLEAN :
       IF cashoutError
       THEN /\ reply' = Response(r.userId, 500, ErrorBody("Cashout failed"))
            /\ reqs' = BagRemove(reqs, r)
            /\ UNCHANGED dbBets
       ELSE /\ dbBets' = [i \in DOMAIN dbBets |->
                            IF dbBets[i].round_id = r.roundId
                               /\ dbBets[i].user_id = r.userId
                            THEN [dbBets[i] EXCEPT !.cashout_multiplier = r.amount,
                                                   !.win_amount = r.win,
                                                   !.status = "won"]
                            ELSE dbBets[i]]
            /\ reply' = NoReply
            /\ reqs' = BagAdd(BagRemove(reqs, r), [r EXCEPT !.pc = "select"])
  /\ UNCHANGED <<roundVars, betRound, rowRound, credits, draft, engineVars, wsVars, activeBets, dbBalances, nBets, nCashouts>>

\* /cashout from the await of the balance select to the sending of the
\* balance update; without a row bal is null and bal.balance throws
cashoutSelected(r) ==
  /\ draft = 2
  /\ r \in DOMAIN reqs
  /\ r.kind = "cashout" /\ r.pc = "select"
  /\ IF r.userId \notin DOMAIN dbBalances
     THEN /\ reply' = Response(r.userId, 500, ErrorBody("Server error"))
          /\ reqs' = BagRemove(reqs, r)
     ELSE /\ reply' = NoReply
          /\ reqs' = BagAdd(BagRemove(reqs, r),
                            [r EXCEPT !.pc = "credit",
                                      !.bal = dbBalances[r.userId]])
  /\ UNCHANGED <<roundVars, betRound, rowRound, credits, draft, engineVars, wsVars, activeBets, dbBalances, dbBets, nBets, nCashouts>>

\* /cashout from the await of the balance update to the response
cashoutCredited(r) ==
  /\ draft = 2
  /\ r \in DOMAIN reqs
  /\ r.kind = "cashout" /\ r.pc = "credit"
  /\ IF r.userId \in DOMAIN dbBalances
     THEN /\ dbBalances' = [dbBalances EXCEPT ![r.userId] = r.bal + r.win]
          /\ credits' = IF r.round = roundNo
                        THEN [credits EXCEPT ![r.userId] = Append(@, r.win)]
                        ELSE credits
     ELSE UNCHANGED <<dbBalances, credits>>
  /\ reply' = Response(r.userId, 200,
                       [success |-> TRUE, multiplier |-> currentMultiplier,
                        win |-> r.win])
  /\ reqs' = BagRemove(reqs, r)
  /\ UNCHANGED <<roundVars, betRound, rowRound, draft, engineVars, wsVars, activeBets, dbBets, nBets, nCashouts>>

(* ------------------------- draft 3: round loop ------------------------- *)
\* Math.random() * 10, to two decimals, in hundredths
Randoms == {0, 102}

\* Math.max(1.01, Number((Math.random() * 10).toFixed(2)))
generateCrashPoint(random) == Max(101, random)

\* currentMultiplier += 0.01 is not rounded: after the additions that should
\* give h hundredths the double is the one nearest to h / 100 (0), above it
\* (1) or below it (-1)
Drift(h) ==
  IF h <= 112 THEN 0 ELSE IF h <= 203 THEN 1 ELSE IF h <= 205 THEN 0 ELSE -1

\* currentMultiplier >= crashPoint, on the doubles
ReachedCrashPoint(h, point) == h > point \/ (h = point /\ Drift(h) >= 0)

\* broadcast of draft 3: the message goes to the sockets of clients
broadcastClients(log, message) == IF clients = {} THEN log ELSE log \cup {message}

\* setClients(wsClients), called by the importing module
setClients(wsClients) ==
  /\ draft = 3
  /\ clients' = wsClients
  /\ UNCHANGED <<draft, engineVars, wsVars, httpVars, roundActive, reply,
                 histVars>>

\* startRound: called once by the importing module, then by the
\* setTimeout(startRound, 3000) of crash
startRound ==
  /\ draft = 3
  /\ pc \in {"listen", "restartTimer"}
  /\ roundNo < MaxRounds
  /\ currentMultiplier' = 100
  /\ \E random \in Randoms : crashPoint' = generateCrashPoint(random)
  /\ roundActive' = TRUE
  /\ sent' = broadcastClients({}, [type |-> "ROUND_START", multiplier |-> 100])
  /\ tickTimers' = setInterval(tickTimers)
  /\ pc' = "tickTimer"
  /\ roundNo' = roundNo + 1
  /\ UNCHANGED <<draft, gameState, currentRoundId, serverSeed, serverSeedHash,
                 waitSeconds, waitTimer, dbRounds, wsVars, httpVars, clients,
                 reply, histVars>>

\* crash, applied to the multiplier after the tick
crash(multiplier) ==
  /\ tickTimers' = clearInterval(tickTimers)
  /\ roundActive' = FALSE
  /\ sent' = broadcastClients(sent, [type |-> "CRASH",
                                     multiplier |-> multiplier])
  /\ pc' = "restartTimer"

\* the setInterval callback of startRound: one 100 ms tick
gameInterval ==
  /\ draft = 3
  /\ tickTimers > 0
  /\ currentMultiplier' = currentMultiplier + 1
  /\ IF ReachedCrashPoint(currentMultiplier + 1, crashPoint)
     THEN crash(currentMultiplier + 1)
     ELSE /\ sent' = broadcastClients(sent, [type |-> "MULTIPLIER_UPDATE",
                                             multiplier |-> currentMultiplier + 1])
          /\ UNCHANGED <<tickTimers, roundActive, pc>>
  /\ UNCHANGED <<draft, gameState, crashPoint, currentRoundId, serverSeed,
                 serverSeedHash, waitSeconds, waitTimer, roundNo, dbRounds,
                 wsVars, httpVars, clients, reply, histVars>>

(* -------------------------------- spec --------------------------------- *)
InitEngine ==
  /\ gameState = "WAITING"
  /\ currentMultiplier = 100
  /\ crashPoint = Null
  /\ currentRoundId = Null
  /\ serverSeed = Null
  /\ serverSeedHash = Null
  /\ reply = NoReply
  /\ sent = {}
  /\ pc = "listen"
  /\ waitSeconds = <<>>
  /\ waitTimer = {}
  /\ roundNo = 0
  /\ dbRounds = <<>>
  /\ guestSessions = <<>>
  /\ wsUser = <<>>
  /\ activeBets = <<>>
  /\ dbBets = <<>>
  /\ reqs = <<>>
  /\ credits = NoCredits
  /\ nBets = 0
  /\ nCashouts = 0
  /\ roundActive = FALSE
  /\ clients = {}
  /\ tickTimers = 0
  /\ betRound = NoBetRound
  /\ rowRound = <<>>

\* draft 1 at server.listen
InitWs ==
  /\ draft = 1
  /\ InitEngine
  /\ dbBalances = <<>>

\* draft 2 at server.listen; the store holds a balance row for every user
InitHttp ==
  /\ draft = 2
  /\ InitEngine
  /\ dbBalances = [u \in HttpUsers |-> StartBalance]

\* draft 3 when its module has been loaded
InitRound ==
  /\ draft = 3
  /\ InitEngine
  /\ dbBalances = <<>>

Init == InitWs \/ InitHttp \/ InitRound

NextWs ==
  \/ \E ws \in Sockets, userId \in UserIds : connection(ws, userId)
  \/ \E ws \in Sockets : close(ws)
  \/ \E ws \in Sockets, amount \in Amounts : PLACE_BET(ws, amount)
  \/ \E ws \in Sockets : CASHOUT(ws)
  \/ startNewRound
  \/ startNewRoundResume
  \/ \E n \in waitTimer : waitTimerTick(n)
  \/ startCrash
  \/ timerTick
  \/ handleCrashResume

NextHttp ==
  \/ connectionV2
  \/ \E userId \in HttpUsers, amount \in AmountsHttp : bet(userId, amount)
  \/ \E r \in DOMAIN reqs : betSelected(r)
  \/ \E r \in DOMAIN reqs : betInserted(r)
  \/ \E r \in DOMAIN reqs : betRecorded(r)
  \/ \E userId \in HttpUsers : cashout(userId)
  \/ \E r \in DOMAIN reqs : cashoutUpdated(r)
  \/ \E r \in DOMAIN reqs : cashoutSelected(r)
  \/ \E r \in DOMAIN reqs : cashoutCredited(r)
  \/ startNewRoundV2
  \/ startNewRoundResumeV2
  \/ \E n \in waitTimer : waitTimerTick(n)
  \/ startCrash
  \/ timerTick
  \/ handleCrashResumeV2
  \/ handleCrashSettleV2

NextRound ==
  \/ \E wsClients \in SUBSET Sockets : setClients(wsClients)
  \/ startRound
  \/ gameInterval

Next == NextWs \/ NextHttp \/ NextRound

\* draft 1 alone, draft 2 alone, and the file's programs together
SpecWs == InitWs /\ [][NextWs]_vars
SpecHttp == InitHttp /\ [][NextHttp]_vars
Spec == Init /\ [][Next]_vars

\* the round engine of draft 1 alone: no client connects or sends
NextEngineWs ==
  \/ startNewRound
  \/ startNewRoundResume
  \/ \E n \in waitTimer : waitTimerTick(n)
  \/ startCrash
  \/ timerTick
  \/ handleCrashResume

\* draft 1 with its timers firing and its persistence calls answering
FairSpecWs ==
  /\ InitWs /\ [][NextEngineWs]_vars
  /\ WF_vars(startNewRound)
  /\ WF_vars(startNewRoundResume)
  /\ WF_vars(\E n \in waitTimer : waitTimerTick(n))
  /\ WF_vars(startCrash)
  /\ WF_vars(timerTick)
  /\ WF_vars(handleCrashResume)
(* ------------------------------- claims -------------------------------- *)
\* the balance of a user: the session's in draft 1, the store's row in draft 2
Sessions == DOMAIN guestSessions

\* C1: after any PLACE_BET and CASHOUT messages, with any numeric amount,
\* every session's balance is >= 0.
C1_BalanceNeverNegative ==
  \A id \in Sessions : guestSessions[id].balance >= 0

\* C2: for every session (user) and round at most one cashout succeeds, and
\* the balance is credited exactly once for it.
C2_CashoutExactlyOnce ==
  \A u \in DOMAIN credits : Len(credits[u]) <= 1

\* C3: a cashout takes both its effects (cashedOut := true and the balance
\* credit) before gameState leaves RUNNING, or neither: once the round is no
\* longer RUNNING, every bet marked cashedOut has had its win credited.
C3_CashoutAtomicWithCrash ==
  gameState # "RUNNING" =>
    /\ \A u \in DOMAIN activeBets :
         activeBets[u].cashedOut => credits[u] # <<>>
    /\ \A id \in Sessions :
         guestSessions[id].cashedOut => credits[id] # <<>>

\* C4: two concurrent bet requests of one user in one round resolve to at
\* most one accepted bet: exactly one bet is recorded for the user and round.
C4_OneBetPerUserAndRound ==
  \A i, j \in DOMAIN dbBets :
    (dbBets[i].user_id = dbBets[j].user_id /\ dbBets[i].round_id = dbBets[j].round_id)
      => i = j
\* C5: a successful PLACE_BET of amount a leaves balance = balance - a and
\* records the bet (activeBet is a afterwards, and not null); a PLACE_BET by
\* a session that had a PLACE_BET confirmed in the same round is answered
\* with an error and changes no session.
C5_BetDebitsOnceAndDuplicateRejected ==
  [][ /\ \A ws \in DOMAIN wsUser :
           (reply'.msg.type = "BET_CONFIRMED" /\ reply'.to = ws) =>
             LET u == wsUser[ws] IN
               /\ guestSessions'[u].balance =
                    guestSessions[u].balance - ToNumber(reply'.msg.amount) * 100
               /\ guestSessions'[u].activeBet = reply'.msg.amount
               /\ guestSessions'[u].activeBet # NoBet
               /\ reply'.msg.balance = guestSessions'[u].balance
      /\ \A ws \in Sockets, amount \in Amounts :
           ( /\ PLACE_BET(ws, amount)
             /\ roundNo > 0
             /\ betRound[wsUser[ws]] = roundNo ) =>
             /\ reply'.msg.type = "ERROR"
             /\ guestSessions' = guestSessions
    ]_vars

\* C6: a PLACE_BET outside WAITING and a CASHOUT outside RUNNING are answered
\* with an error and change no session; a bet is recorded or confirmed only
\* in WAITING; a bet is marked cashed out, and a CASHOUT is confirmed, only
\* in RUNNING for a session whose bet exists and is not yet cashed out.
C6_PhaseGating ==
  [][ /\ \A ws \in Sockets, amount \in Amounts :
           (PLACE_BET(ws, amount) /\ gameState # "WAITING") =>
             /\ reply'.msg.type = "ERROR"
             /\ guestSessions' = guestSessions
      /\ \A ws \in Sockets :
           (CASHOUT(ws) /\ gameState # "RUNNING") =>
             /\ reply'.msg.type = "ERROR"
             /\ guestSessions' = guestSessions
      /\ \A u \in Sessions :
           /\ ( /\ guestSessions'[u].activeBet # NoBet
                /\ guestSessions'[u].activeBet # guestSessions[u].activeBet ) =>
                gameState = "WAITING"
           /\ (guestSessions'[u].cashedOut /\ ~guestSessions[u].cashedOut) =>
                /\ gameState = "RUNNING"
                /\ ~Falsy(guestSessions[u].activeBet)
      /\ \A ws \in DOMAIN wsUser :
           (reply'.msg.type = "CASHOUT_CONFIRMED" /\ reply'.to = ws) =>
             LET u == wsUser[ws] IN
               /\ gameState = "RUNNING"
               /\ guestSessions[u].activeBet # NoBet
               /\ ~guestSessions[u].cashedOut
               /\ guestSessions'[u].cashedOut
      /\ \A ws \in DOMAIN wsUser :
           (reply'.msg.type = "BET_CONFIRMED" /\ reply'.to = ws) =>
             gameState = "WAITING"
    ]_vars

C6_Witness ==
  /\ gameState = "CRASHED"
  /\ reply.msg = ErrorMsg("Cashout failed")
  /\ \E u \in Sessions : /\ guestSessions[u].activeBet = <<200>>
                         /\ ~guestSessions[u].cashedOut

\* C7: no message sent before the round is CRASHED carries the round's
\* serverSeed or crashPoint; the only message carrying either is CRASH,
\* which draft 3 does not send while its round is active.
Secret(m) == "serverSeed" \in DOMAIN m \/ "crashPoint" \in DOMAIN m

C7_NoSecretBeforeCrash ==
  /\ \A m \in sent : Secret(m) => m.type = "CRASH"
  /\ gameState # "CRASHED" =>
       \A m \in sent :
         /\ ~Secret(m)
         /\ "serverSeedHash" \in DOMAIN m => m.serverSeedHash # serverSeed
         /\ m.type = "MULTIPLIER" => m.value < crashPoint
  /\ roundActive => \A m \in sent : m.type # "CRASH"
  /\ ~Secret(reply.msg)

C7_Witness ==
  /\ gameState = "RUNNING"
  /\ \E m \in sent : m.type = "ROUND_START"
  /\ \E m \in sent : m.type = "MULTIPLIER"

\* C8: every round that reaches CRASHED has broadcast a CRASH event revealing
\* the round's serverSeed, and a ROUND_START event carrying its sha256.
C8_CommitThenReveal ==
  gameState = "CRASHED" =>
    /\ \E m \in sent : /\ m.type = "CRASH"
                       /\ "serverSeed" \in DOMAIN m
                       /\ m.serverSeed = serverSeed
    /\ \E m \in sent : /\ m.type = "ROUND_START"
                       /\ m.serverSeedHash = sha256(serverSeed)

\* C9: without client input the engine goes from WAITING to RUNNING, from
\* RUNNING to CRASHED and from CRASHED to WAITING again, for every crash
\* point (1.00 included), when timers fire and persistence calls answer.
\* (The model opens MaxRounds rounds, so the last CRASHED is left out.)
C9_RoundCycle ==
  /\ [](gameState = "WAITING" => <>(gameState = "RUNNING"))
  /\ [](gameState = "RUNNING" => <>(gameState = "CRASHED"))
  /\ [](gameState = "CRASHED" /\ roundNo < MaxRounds => <>(gameState = "WAITING"))

C9_Witness ==
  /\ gameState = "CRASHED"
  /\ crashPoint = 100
  /\ roundNo = 2
  /\ currentRoundId = Null

\* C10: a persistence failure never stops the round loop: the loop always
\* has a timer armed or a persistence call pending.
C10_LoopNeverStops == pc # "halted"
\* C11: in a round whose crashPoint is 1.00 no cashout succeeds, so no
\* session is marked cashed out and no win is credited in that round.
C11_InstantLossAtOne ==
  crashPoint = 100 =>
    /\ \A u \in DOMAIN credits : credits[u] = <<>>
    /\ \A id \in Sessions : ~guestSessions[id].cashedOut

\* C12: a PLACE_BET whose amount is a zero or negative number is never
\* confirmed.
C12_NonPositiveBetRejected ==
  (reply.msg.type = "BET_CONFIRMED" /\ reply.msg.amount # NoBet) =>
    ToNumber(reply.msg.amount) > 0

\* C13: the stored sessions are the sessions of the connected clients, and
\* active_users is the number of connected clients.
C13_SessionsAreConnections ==
  /\ Sessions = {wsUser[w] : w \in DOMAIN wsUser}
  /\ active_users = Cardinality(DOMAIN wsUser)
\* C14: gameState changes only WAITING -> RUNNING, RUNNING -> CRASHED and
\* CRASHED -> WAITING; a round is opened only at server start or from
\* CRASHED, with no multiplier interval armed; at most one multiplier
\* interval is armed, and it is armed exactly while the game is RUNNING.
C14_StateCycle ==
  [][ /\ gameState' # gameState =>
           <<gameState, gameState'>> \in {<<"WAITING", "RUNNING">>,
                                          <<"RUNNING", "CRASHED">>,
                                          <<"CRASHED", "WAITING">>}
      /\ roundNo' # roundNo =>
           /\ pc = "listen" \/ gameState = "CRASHED"
           /\ tickTimers = 0
      /\ tickTimers' <= 1
      /\ tickTimers' = (IF gameState' = "RUNNING" THEN 1 ELSE 0)
    ]_vars

C14_Witness ==
  /\ roundNo = 2
  /\ gameState = "RUNNING"
  /\ tickTimers = 1

\* C15: currentMultiplier is 1.00 throughout WAITING and on entry to RUNNING;
\* it changes only by a tick of +0.01 while RUNNING or by the reset to 1.00
\* of a new round; a tick that leaves the game RUNNING stays below
\* crashPoint, and nothing changes it while the game is CRASHED.
C15_MultiplierSteps ==
  /\ [](gameState = "WAITING" => currentMultiplier = 100)
  /\ [][ /\ (gameState # "RUNNING" /\ gameState' = "RUNNING") =>
              currentMultiplier' = 100
         /\ currentMultiplier' # currentMultiplier =>
              \/ /\ gameState = "RUNNING"
                 /\ currentMultiplier' = currentMultiplier + 1
                 /\ gameState' = "RUNNING" => currentMultiplier' < crashPoint
                 /\ gameState' # "RUNNING" => currentMultiplier' >= crashPoint
              \/ /\ gameState = "CRASHED"
                 /\ gameState' = "WAITING"
                 /\ currentMultiplier' = 100
         /\ (gameState = "CRASHED" /\ gameState' = "CRASHED") =>
              currentMultiplier' = currentMultiplier
       ]_vars

C15_Witness ==
  /\ roundNo = 2
  /\ gameState = "WAITING"
  /\ currentMultiplier = 100
  /\ crashPoint > 100

\* C16: a bet that is recorded (activeBet non-null, or an entry of
\* activeBets) was accepted in the current round.
C16_BetIsOfCurrentRound ==
  /\ \A u \in DOMAIN activeBets : betRound[u] = roundNo
  /\ \A id \in Sessions :
       guestSessions[id].activeBet # NoBet => betRound[id] = roundNo

\* C17: the game is not WAITING once the countdown of the round has reached
\* zero, and the countdown interval is not armed while the game is RUNNING.
C17_RunningAtCountdownZero ==
  /\ (gameState = "WAITING" /\ roundNo > 0) => waitSeconds[roundNo] > 0
  /\ gameState = "RUNNING" => waitTimer = {}

\* C18: the step from RUNNING to CRASHED changes no balance, neither of a
\* session nor of a row of table balances.
C18_CrashKeepsBalances ==
  [][ (gameState = "RUNNING" /\ gameState' = "CRASHED") =>
        /\ DOMAIN guestSessions' = DOMAIN guestSessions
        /\ \A id \in Sessions :
             guestSessions'[id].balance = guestSessions[id].balance
        /\ dbBalances' = dbBalances
    ]_vars

C18_Witness ==
  /\ gameState = "CRASHED"
  /\ \E id \in Sessions : /\ guestSessions[id].activeBet = <<200>>
                          /\ ~guestSessions[id].cashedOut
                          /\ guestSessions[id].balance = StartBalance - 20000

\* C19: a successful cashout reply reports the multiplier its win was
\* computed with: win = round2(bet amount, reported multiplier).
C19_ReportedMultiplierIsUsed ==
  /\ reply.msg.type = "CASHOUT_CONFIRMED" =>
       \E amount \in Amounts :
         reply.msg.win = round2(ToNumber(amount), reply.msg.multiplier)
  /\ (reply.msg.type = "RESPONSE" /\ "win" \in DOMAIN reply.msg.body) =>
       \E amount \in AmountsHttp :
         reply.msg.body.win = round2(amount, reply.msg.body.multiplier)

\* C20: every row of table bets carries the id of the round in which its
\* request was accepted (round n of draft 2 has id n: row i of table rounds
\* has id i, and a failed insert ends the loop).
C20_BetRowCarriesItsRound ==
  \A i \in DOMAIN dbBets : dbBets[i].round_id = rowRound[i]
====
